---- MODULE Spec2Model ----
(***************************************************************************)
(* The streaming upload engine of httpBinaryClient: the client's           *)
(* HTTPClient (UploadFile, uploadFileOnce and its producer goroutine,      *)
(* isPermanentError, UploadMultipleFiles) and the server's handleUpload.   *)
(*                                                                         *)
(* Error values are sequences of message fragments; <<>> is Go's nil.      *)
(* The Russian messages of the source are transliterated:                  *)
(*   "oshibka otkrytiya fayla"          line 274                           *)
(*   "fayl pustoy"                      line 286                           *)
(*   "oshibka sozdaniya polya formy"    line 307                           *)
(*   "oshibka zapisi v pipe"            line 325                           *)
(*   "oshibka chteniya fayla"           line 343                           *)
(*   "oshibka sozdaniya HTTP zaprosa"   line 353                           *)
(*   "oshibka vypolneniya HTTP zaprosa" line 361                           *)
(*   "server vernul oshibku"            line 374                           *)
(*   "zagruzka ne udalas posle"         line 266                           *)
(*   "oshibka zagruzki fayla"           line 477                           *)
(*   "oshibki pri zagruzke faylov"      line 495                           *)
(*   "spisok faylov pust"               line 451                           *)
(*   "oshibka chteniya direktorii"      line 505                           *)
(***************************************************************************)
EXTENDS Naturals, Sequences, FiniteSets, TLC

VARIABLES
    cfg,         \* ClientConfig and the peer the client talks to
    files,       \* per session: the source file and whether the call is part of the batch
    sem,         \* len(c.sem): permits taken
    cancelled,   \* the caller's context is done
    batch,       \* UploadMultipleFiles: position, derived context, result
    errs,        \* the buffered channel errors of UploadMultipleFiles
    sess,        \* per session: the UploadFile call (and its batch task)
    att,         \* per session and attempt: producer, pipe, request, handler
    disk,        \* the server's upload directory: name -> content
    ev           \* per session and attempt: what the progress callback has observed

vars == <<cfg, files, sem, cancelled, batch, errs, sess, att, disk, ev>>

(***************************************************************************)
(* Bounds                                                                  *)
(***************************************************************************)
MaxFiles == 3        \* SpecBatch: 2..MaxFiles concurrent UploadFile calls
MaxConc == 2         \* MaxConcurrency ranges over 1..MaxConc
MaxRetry == 2        \* RetryAttempts ranges over 0..MaxRetry
MaxDelay == 1        \* RetryDelay ranges over 0..MaxDelay (timer ticks)
MaxBuf == 2          \* BufferSize ranges over 1..MaxBuf
MaxSize == 3         \* file sizes range over 0..MaxSize
MaxWork == 3         \* Spec: RetryAttempts + file size stays within MaxWork
MaxLoad == 4         \* SpecBatch: calls + attempts on non-empty files stay within MaxLoad
LiveFiles == 2       \* SpecLive: concurrent UploadFile calls on a client with one slot

ServerBuf == 2       \* the handler's chunk buffer (64 KiB in the source), in model bytes
StatusOK == 200
StatusFail == 500

Sessions == DOMAIN files
Attempts == 0..cfg.r

Min(a, b) == IF a < b THEN a ELSE b

\* createTestFile: the content of a file is determined by its position and,
\* to tell two files apart, by the session that uploads it.
Data(s) == [i \in 1..files[s].size |-> 10 * s + i]

Path(s) == <<"f1", "f2", "f3", "f4", "f5">>[s]

(***************************************************************************)
(* Errors                                                                  *)
(***************************************************************************)
NoErr == <<>>
CtxErr == <<"context canceled">>

permanentErrors ==
    { "oshibka otkrytiya fayla", "fayl pustoy", "oshibka sozdaniya polya formy",
      "oshibka chteniya fayla", "oshibka zapisi v pipe" }

\* a classifier that knows only the three stream markers
isPermanentErrorIO(err) ==
    /\ err # NoErr
    /\ \E i \in DOMAIN err :
          err[i] \in { "oshibka sozdaniya polya formy", "oshibka chteniya fayla",
                       "oshibka zapisi v pipe" }

\* strings.Contains(errStr, permanentErr) for some marker
isPermanentError(err) ==
    /\ err # NoErr
    /\ \E i \in DOMAIN err : err[i] \in permanentErrors

\* fmt.Errorf("... posle %d popytok, poslednyaya oshibka: %w", RetryAttempts+1, lastErr)
FinalErr(lastErr) ==
    <<"zagruzka ne udalas posle", ToString(cfg.r + 1)>> \o lastErr

StatusErr(status, body) ==
    <<"server vernul oshibku", ToString(status), body>>

\* http.NewRequestWithContext parses the URL and fails on one it cannot parse
ValidURL(u) == u # "::bad"

NewRequestErr ==
    <<"oshibka sozdaniya HTTP zaprosa", "parse", cfg.url, "missing protocol scheme">>

DoErr(cause) == <<"oshibka vypolneniya HTTP zaprosa", cfg.url>> \o cause

(***************************************************************************)
(* Contexts                                                                *)
(***************************************************************************)
\* ctx.Done() of the context a session runs under: the caller's, or for a
\* batch task the one derived by context.WithCancel in UploadMultipleFiles.
CtxDone(s) == cancelled \/ (files[s].inBatch /\ batch.cancelled)

(***************************************************************************)
(* Initial states                                                          *)
(***************************************************************************)
NoAtt ==
    [ ppc |-> "none", off |-> 0, n |-> 0, bt |-> 0,
      dset |-> FALSE, done |-> NoErr,
      rclosed |-> FALSE, fclosed |-> FALSE,
      conn |-> "none", status |-> 0, rbody |-> "",
      hpc |-> "none", fhdr |-> FALSE, form |-> <<>>, fend |-> FALSE, hoff |-> 0 ]

NoSess(inBatch) ==
    [ pc |-> IF inBatch THEN "idle" ELSE "acquire",
      attempt |-> 0, lastErr |-> NoErr, res |-> NoErr,
      holds |-> FALSE, timer |-> 0, calls |-> 0, reqs |-> 0 ]

\* the observations of one attempt's progress callback: whether it was called,
\* the first and the last bytesTransferred and the totalBytes reported, the
\* number of reports at 100%, whether every report had 0 < bytes <= total,
\* whether the reports never decreased, whether one came after the return
NoEv ==
    [ seen |-> FALSE, first |-> 0, bytes |-> 0, total |-> 0, full |-> 0,
      inRange |-> TRUE, mono |-> TRUE, late |-> FALSE ]

FileSet(sizes, names) ==
    [ exists : BOOLEAN, size : sizes, name : names, inBatch : BOOLEAN,
      dir : BOOLEAN ]

CfgSet(ks, rs, ds, bs) ==
    [ k : ks, r : rs, delay : ds, buf : bs,
      mode : {"handler", "stub"}, stubStatus : {StatusOK, StatusFail},
      stubBody : {"fail", "fayl pustoy"},
      url : {"http://host/upload", "::bad"} ]

InitWith(nf, cs, fset) ==
    /\ cfg \in { c \in cs :
                   /\ c.mode = "handler" => c.stubStatus = StatusOK
                   /\ c.stubStatus = StatusOK => c.stubBody = "fail"
                   /\ ~ValidURL(c.url) => c.mode = "stub" /\ c.stubStatus = StatusOK }
    /\ files \in { f \in [1..nf -> fset] :
                     \A s \in 1..nf :
                        /\ ~f[s].exists => f[s].size = 0
                        /\ f[s].dir => f[s].exists /\ f[s].size = 0 /\ f[s].inBatch }
    /\ sem = 0
    /\ cancelled = FALSE
    /\ batch = [ pc |-> "idle", cancelled |-> FALSE, res |-> NoErr ]
    /\ errs = <<>>
    /\ sess = [ s \in 1..nf |-> NoSess(files[s].inBatch) ]
    /\ att = [ s \in 1..nf |-> [ a \in 0..cfg.r |-> NoAtt ] ]
    /\ disk = [ nm \in { files[s].name : s \in 1..nf } |-> <<>> ]
    /\ ev = [ s \in 1..nf |-> [ a \in 0..cfg.r |-> NoEv ] ]

(***************************************************************************)
(* UploadFile: the limiter and the retry loop                              *)
(***************************************************************************)
\* a send that never blocks, as on a channel without a capacity bound
CanAcquireAlways == TRUE

\* case c.sem <- struct{}{} can proceed: the channel has room
CanAcquire == sem < cfg.k

\* the for condition attempt <= RetryAttempts fails for the next attempt
RetryExhausted(attempt) == attempt + 1 > cfg.r

\* a loop that always runs all its attempts, whatever an attempt returned
AfterAttemptRetryAll(se, err) ==
    IF RetryExhausted(se.attempt)
    THEN [se EXCEPT !.pc = "returned", !.lastErr = err, !.holds = FALSE,
                    !.res = IF err = NoErr THEN NoErr ELSE FinalErr(err)]
    ELSE [se EXCEPT !.pc = "delay", !.attempt = @ + 1, !.lastErr = err,
                    !.timer = cfg.delay]

\* what the loop of UploadFile does with the result of one uploadFileOnce:
\* return nil, break to the final error, or go on to the next attempt
AfterAttempt(se, err) ==
    IF err = NoErr
    THEN [se EXCEPT !.pc = "returned", !.res = NoErr, !.holds = FALSE]
    ELSE IF isPermanentError(err) \/ RetryExhausted(se.attempt)
    THEN [se EXCEPT !.pc = "returned", !.res = FinalErr(err), !.lastErr = err,
                    !.holds = FALSE]
    ELSE [se EXCEPT !.pc = "delay", !.attempt = @ + 1, !.lastErr = err,
                    !.timer = cfg.delay]

\* a release on the success path only
ReleasedOnSuccessOnly(se) == IF se.pc = "returned" /\ se.res = NoErr THEN 1 ELSE 0

\* a slot that is never given back
ReleasedNever(se) == 0

\* defer func() { <-c.sem }() runs when UploadFile returns
Released(se) == IF se.pc = "returned" THEN 1 ELSE 0

\* select { case c.sem <- struct{}{}: ... case <-ctx.Done(): return ctx.Err() }
UploadFile_Acquire(s) ==
    /\ sess[s].pc = "acquire"
    /\ \/ /\ CanAcquire
          /\ sem' = sem + 1
          /\ sess' = [sess EXCEPT ![s].pc = "once", ![s].holds = TRUE]
       \/ /\ CtxDone(s)
          /\ sem' = sem
          /\ sess' = [sess EXCEPT ![s].pc = "returned", ![s].res = CtxErr]
    /\ UNCHANGED <<cfg, files, cancelled, batch, errs, att, disk, ev>>

\* time passes while the task waits in time.After(RetryDelay)
TimerTick(s) ==
    /\ sess[s].pc = "delay"
    /\ sess[s].timer > 0
    /\ sess' = [sess EXCEPT ![s].timer = @ - 1]
    /\ UNCHANGED <<cfg, files, sem, cancelled, batch, errs, att, disk, ev>>

\* select { case <-ctx.Done(): return ctx.Err(); case <-time.After(RetryDelay): }
UploadFile_Delay(s) ==
    /\ sess[s].pc = "delay"
    /\ \/ /\ CtxDone(s)
          /\ sem' = sem - 1
          /\ sess' = [sess EXCEPT ![s].pc = "returned", ![s].res = CtxErr,
                                  ![s].holds = FALSE]
       \/ /\ sess[s].timer = 0
          /\ sem' = sem
          /\ sess' = [sess EXCEPT ![s].pc = "once"]
    /\ UNCHANGED <<cfg, files, cancelled, batch, errs, att, disk, ev>>

(***************************************************************************)
(* uploadFileOnce: the calling task                                        *)
(***************************************************************************)
\* a counter that goes on from where the previous attempt's reports ended
BytesCarriedOver(s, a) == IF a > 0 THEN ev[s][a - 1].bytes ELSE 0

\* var bytesTransferred int64: every attempt's producer starts from zero
BytesAtStart(s, a) == 0

OpenErr == <<"oshibka otkrytiya fayla", "no such file or directory">>
EmptyErr == <<"fayl pustoy">>

\* the deferred resp.Body.Close(), pr.Close() and file.Close(). The response
\* and the value received from done die with the call; a handler that was
\* still reading the body loses its connection and its partial form, and so
\* does the test server.
CloseAttempt(x) ==
    LET parsed == x.hpc \in {"create", "copy"} IN
    [x EXCEPT !.rclosed = TRUE, !.fclosed = TRUE, !.conn = "closed",
              !.done = NoErr, !.status = 0, !.rbody = "",
              !.hpc = IF @ = "parse" THEN "aborted" ELSE @,
              !.fhdr = parsed, !.fend = parsed,
              !.form = IF parsed THEN @ ELSE <<>>]

\* os.Open, file.Stat, the size check, io.Pipe, go func(), NewRequestWithContext
\* (on whose failure the call returns, its deferred closes running while the
\* producer goroutine has just been started) and the call of c.client.Do
uploadFileOnce_Begin(s) ==
    LET a == sess[s].attempt
        se == [sess[s] EXCEPT !.calls = @ + 1]
    IN
    /\ sess[s].pc = "once"
    /\ IF ~files[s].exists
       THEN /\ sess' = [sess EXCEPT ![s] = AfterAttempt(se, OpenErr)]
            /\ att' = att
       ELSE IF files[s].size = 0
       THEN /\ sess' = [sess EXCEPT ![s] = AfterAttempt(se, EmptyErr)]
            /\ att' = att
       ELSE IF ~ValidURL(cfg.url)
       THEN /\ sess' = [sess EXCEPT ![s] = AfterAttempt(se, NewRequestErr)]
            /\ att' = [att EXCEPT ![s][a] =
                         CloseAttempt([NoAtt EXCEPT !.ppc = "hdr",
                                                    !.bt = BytesAtStart(s, a)])]
       ELSE /\ sess' = [sess EXCEPT ![s] = [se EXCEPT !.pc = "do", !.reqs = @ + 1]]
            /\ att' = [att EXCEPT ![s][a] =
                         [NoAtt EXCEPT !.ppc = "hdr", !.conn = "open",
                                       !.bt = BytesAtStart(s, a),
                                       !.hpc = IF cfg.mode = "handler"
                                               THEN "parse" ELSE "none"]]
    /\ sem' = sem - Released(sess'[s])
    /\ UNCHANGED <<cfg, files, cancelled, batch, errs, disk, ev>>

\* resp, err := c.client.Do(req) returns the response
uploadFileOnce_DoResponse(s) ==
    LET a == sess[s].attempt IN
    /\ sess[s].pc = "do"
    /\ att[s][a].status # 0
    /\ att' = [att EXCEPT ![s][a].conn = "resp"]
    /\ sess' = [sess EXCEPT ![s].pc = "waitdone"]
    /\ UNCHANGED <<cfg, files, sem, cancelled, batch, errs, disk, ev>>

\* resp, err := c.client.Do(req) returns an error: the network failed or the
\* client's Timeout expired, or the request's context is done
uploadFileOnce_DoError(s) ==
    LET a == sess[s].attempt IN
    /\ sess[s].pc = "do"
    /\ \/ /\ CtxDone(s)
          /\ sess' = [sess EXCEPT ![s] = AfterAttempt(sess[s], DoErr(CtxErr))]
       \/ sess' = [sess EXCEPT ![s] = AfterAttempt(sess[s], DoErr(<<"connection reset">>))]
    /\ att' = [att EXCEPT ![s][a] = CloseAttempt(@)]
    /\ sem' = sem - Released(sess'[s])
    /\ UNCHANGED <<cfg, files, cancelled, batch, errs, disk, ev>>

\* a result that looks at the response status only
AttemptResultStatusOnly(done, status, body) ==
    IF status # StatusOK THEN StatusErr(status, body) ELSE NoErr

\* writeErr := <-done; the status check; return
AttemptResult(done, status, body) ==
    IF done # NoErr THEN done
    ELSE IF status # StatusOK THEN StatusErr(status, body)
    ELSE NoErr

uploadFileOnce_WaitDone(s) ==
    LET a == sess[s].attempt
        x == att[s][a]
    IN
    /\ sess[s].pc = "waitdone"
    /\ x.dset
    /\ sess' = [sess EXCEPT ![s] = AfterAttempt(sess[s], AttemptResult(x.done, x.status, x.rbody))]
    /\ att' = [att EXCEPT ![s][a] = CloseAttempt(@)]
    /\ sem' = sem - Released(sess'[s])
    /\ UNCHANGED <<cfg, files, cancelled, batch, errs, disk, ev>>

(***************************************************************************)
(* uploadFileOnce: the producer goroutine and the pipe                     *)
(***************************************************************************)
\* a counter that is assigned the chunk's length instead of accumulating it
TransferredChunkOnly(bt, n) == n

\* bytesTransferred += int64(n)
Transferred(bt, n) == bt + n

\* float64(bytesTransferred) / float64(fileSize) * 100, rounded down
Percentage(b, total) == (b * 100) \div total

\* n, err := file.Read(buffer): the length of the next chunk (0 at EOF)
ReadLen(s, off) == Min(cfg.buf, files[s].size - off)

\* a slice taken from the start of the file instead of the read position
ChunkFromStart(s, off, n) == SubSeq(Data(s), 1, n)

\* buffer[:n] after a read that ended at offset off
Chunk(s, off, n) == SubSeq(Data(s), off - n + 1, off)

\* the goroutine is over: its locals are gone
ProducerEnd(x) == [x EXCEPT !.ppc = "end", !.off = 0, !.n = 0, !.bt = 0]

\* a send on a channel without buffer: it waits for a receiver, and there is
\* none once uploadFileOnce has returned
SendDoneUnbuffered(x, err) ==
    IF x.fclosed THEN [x EXCEPT !.ppc = "blocked"]
    ELSE IF x.rclosed
    THEN [x EXCEPT !.dset = TRUE, !.done = err, !.ppc = "end", !.off = 0, !.n = 0, !.bt = 0]
    ELSE [x EXCEPT !.dset = TRUE, !.done = err, !.ppc = "trl"]

\* done <- err, after which the deferred multipartWriter.Close() writes the
\* trailing boundary (failing at once when the pipe's read end is closed) and
\* pw.Close() ends the body. Nobody receives from done once uploadFileOnce
\* has returned.
SendDone(x, err) ==
    LET y == [x EXCEPT !.dset = TRUE, !.done = IF x.fclosed THEN NoErr ELSE err] IN
    IF x.rclosed THEN ProducerEnd(y) ELSE [y EXCEPT !.ppc = "trl"]

\* a loop whose writes go to a buffer and complete without the consumer
Producer_LoopBuffered(s, a) ==
    LET x == att[s][a] IN
    /\ x.ppc = "loop"
    /\ att' = [att EXCEPT ![s][a] =
                 IF CtxDone(s) THEN SendDone(x, CtxErr)
                 ELSE IF x.fclosed
                 THEN SendDone(x, <<"oshibka chteniya fayla", "file already closed">>)
                 ELSE IF ReadLen(s, x.off) > 0
                 THEN [x EXCEPT !.ppc = "cb", !.n = ReadLen(s, x.off),
                                !.off = @ + ReadLen(s, x.off)]
                 ELSE SendDone(x, NoErr)]
    /\ UNCHANGED <<cfg, files, sem, cancelled, batch, errs, sess, disk, ev>>

\* one turn of the for/select: ctx.Done() wins over default; otherwise the
\* next chunk is read and offered to the pipe, or EOF ends the loop
Producer_Loop(s, a) ==
    LET x == att[s][a] IN
    /\ x.ppc = "loop"
    /\ att' = [att EXCEPT ![s][a] =
                 IF CtxDone(s) THEN SendDone(x, CtxErr)
                 ELSE IF x.fclosed
                 THEN SendDone(x, <<"oshibka chteniya fayla", "file already closed">>)
                 ELSE IF ReadLen(s, x.off) > 0
                 THEN [x EXCEPT !.ppc = "wr", !.n = ReadLen(s, x.off),
                                !.off = @ + ReadLen(s, x.off)]
                 ELSE SendDone(x, NoErr)]
    /\ UNCHANGED <<cfg, files, sem, cancelled, batch, errs, sess, disk, ev>>

\* a write to the pipe fails once its read end is closed: CreateFormFile
\* (the part header) or part.Write (a chunk)
Producer_WriteError(s, a) ==
    LET x == att[s][a] IN
    /\ x.ppc \in {"hdr", "wr"}
    /\ x.rclosed
    /\ att' = [att EXCEPT ![s][a] =
                 SendDone(x, <<IF x.ppc = "hdr" THEN "oshibka sozdaniya polya formy"
                                                ELSE "oshibka zapisi v pipe",
                               "io: read/write on closed pipe">>)]
    /\ UNCHANGED <<cfg, files, sem, cancelled, batch, errs, sess, disk, ev>>

\* UploadFile has returned to its caller
Returned(s) == sess[s].pc \in {"returned", "exit"}

\* bytesTransferred += int64(n); progressCallback(bytesTransferred, fileSize, percentage)
Producer_Progress(s, a) ==
    LET x == att[s][a]
        e == ev[s][a]
        b == Transferred(x.bt, x.n)
        total == files[s].size
    IN
    /\ x.ppc = "cb"
    /\ att' = [att EXCEPT ![s][a] = [x EXCEPT !.ppc = "loop", !.bt = b]]
    /\ ev' = [ev EXCEPT ![s][a] =
                [ seen |-> TRUE,
                  first |-> IF e.seen THEN e.first ELSE b,
                  bytes |-> b,
                  total |-> total,
                  full |-> e.full + (IF Percentage(b, total) = 100 THEN 1 ELSE 0),
                  inRange |-> e.inRange /\ 0 < b /\ b <= total,
                  mono |-> e.mono /\ b >= e.bytes,
                  late |-> e.late \/ Returned(s) ]]
    /\ UNCHANGED <<cfg, files, sem, cancelled, batch, errs, sess, disk>>

\* the deferred multipartWriter.Close() fails on a closed pipe (its error is
\* dropped) and the goroutine ends
Producer_TrailerError(s, a) ==
    LET x == att[s][a] IN
    /\ x.ppc = "trl"
    /\ x.rclosed
    /\ att' = [att EXCEPT ![s][a] = ProducerEnd(x)]
    /\ UNCHANGED <<cfg, files, sem, cancelled, batch, errs, sess, disk, ev>>

\* the transport reads the request body from the pipe and the peer receives
\* it: a pending write completes when its bytes have been taken
Transport_Read(s, a) ==
    LET x == att[s][a] IN
    /\ x.conn \in {"open", "resp"}
    /\ ~x.rclosed
    /\ \/ /\ x.ppc = "hdr"
          /\ att' = [att EXCEPT ![s][a] = [x EXCEPT !.ppc = "loop", !.fhdr = TRUE]]
       \/ /\ x.ppc = "wr"
          /\ att' = [att EXCEPT ![s][a] =
                       [x EXCEPT !.ppc = "cb", !.form = @ \o Chunk(s, x.off, x.n)]]
       \/ /\ x.ppc = "trl"
          /\ att' = [att EXCEPT ![s][a] =
                       [ProducerEnd(x) EXCEPT !.fend = TRUE,
                                 !.hpc = IF @ = "parse" THEN "create" ELSE @]]
    /\ UNCHANGED <<cfg, files, sem, cancelled, batch, errs, sess, disk, ev>>

\* after a response that came before the end of the body, the connection is
\* torn down and the transport closes the request body
Transport_CloseBody(s, a) ==
    LET x == att[s][a] IN
    /\ x.conn = "resp"
    /\ ~x.fend
    /\ ~x.rclosed
    /\ att' = [att EXCEPT ![s][a].rclosed = TRUE]
    /\ UNCHANGED <<cfg, files, sem, cancelled, batch, errs, sess, disk, ev>>

\* a step of one attempt's producer goroutine, its pipe writes included
ProducerStep(s, a) ==
    \/ Producer_Loop(s, a)
    \/ Producer_WriteError(s, a)
    \/ Producer_Progress(s, a)
    \/ Producer_TrailerError(s, a)
    \/ Transport_Read(s, a)

(***************************************************************************)
(* The peer: a test server answering one status, or handleUpload           *)
(***************************************************************************)
\* httptest handler: w.WriteHeader(status), at any point of the request
Stub_Respond(s, a) ==
    LET x == att[s][a] IN
    /\ cfg.mode = "stub"
    /\ x.conn = "open"
    /\ x.status = 0
    /\ att' = [att EXCEPT ![s][a] = [x EXCEPT !.status = cfg.stubStatus,
                                              !.rbody = cfg.stubBody]]
    /\ UNCHANGED <<cfg, files, sem, cancelled, batch, errs, sess, disk, ev>>

\* dst.Write(chunk) through a file descriptor whose offset is off
WriteAt(f, off, c) ==
    LET padded == IF Len(f) < off THEN f \o [i \in 1..(off - Len(f)) |-> 0] ELSE f
        newLen == IF Len(padded) > off + Len(c) THEN Len(padded) ELSE off + Len(c)
    IN [i \in 1..newLen |-> IF i > off /\ i <= off + Len(c) THEN c[i - off] ELSE padded[i]]

\* n, err := file.Read(buffer) in the handler: the length of the next chunk
HandlerReadLen(x) == Min(ServerBuf, Len(x.form) - x.hoff)

\* ParseMultipartForm and FormFile have succeeded; os.Create truncates
handleUpload_Create(s, a) ==
    LET x == att[s][a] IN
    /\ x.hpc = "create"
    /\ disk' = [disk EXCEPT ![files[s].name] = <<>>]
    /\ att' = [att EXCEPT ![s][a] = [x EXCEPT !.hpc = "copy", !.hoff = 0]]
    /\ UNCHANGED <<cfg, files, sem, cancelled, batch, errs, sess, ev>>

\* the chunk loop of handleUpload, and after io.EOF the 200 response
handleUpload_Copy(s, a) ==
    LET x == att[s][a]
        n == HandlerReadLen(x)
    IN
    /\ x.hpc = "copy"
    /\ \/ /\ n > 0
          /\ disk' = [disk EXCEPT ![files[s].name] =
                        WriteAt(@, x.hoff, SubSeq(x.form, x.hoff + 1, x.hoff + n))]
          /\ att' = [att EXCEPT ![s][a].hoff = @ + n]
       \/ /\ n = 0
          /\ disk' = disk
          /\ att' = [att EXCEPT ![s][a] =
                       IF x.conn = "open"
                       THEN [x EXCEPT !.hpc = "done", !.status = StatusOK, !.rbody = "ok"]
                       ELSE [x EXCEPT !.hpc = "done", !.form = <<>>,
                                      !.fhdr = FALSE, !.fend = FALSE]]
    /\ UNCHANGED <<cfg, files, sem, cancelled, batch, errs, sess, ev>>

(***************************************************************************)
(* UploadMultipleFiles                                                     *)
(***************************************************************************)
\* the files the batch uploads: the list given to UploadMultipleFiles, which
\* for UploadDirectory is the directory's entries that are not directories
BatchFiles == { s \in Sessions : files[s].inBatch /\ ~files[s].dir }

\* strings.Join(allErrors, "; ") under the heading of line 495
RECURSIVE JoinErrors(_)
JoinErrors(es) == IF es = <<>> THEN <<>> ELSE Head(es) \o JoinErrors(Tail(es))

\* a start without the length check
UploadMultipleFiles_StartUnchecked ==
    /\ batch.pc = "idle"
    /\ batch' = [batch EXCEPT !.pc = "wait"]
    /\ sess' = [s \in Sessions |->
                  IF s \in BatchFiles THEN [sess[s] EXCEPT !.pc = "acquire"]
                  ELSE sess[s]]
    /\ UNCHANGED <<cfg, files, sem, cancelled, errs, att, disk, ev>>

\* the length check, then one goroutine per file
UploadMultipleFiles_Start ==
    /\ batch.pc = "idle"
    /\ IF BatchFiles = {}
       THEN /\ batch' = [batch EXCEPT !.pc = "done", !.res = <<"spisok faylov pust">>]
            /\ sess' = sess
       ELSE /\ batch' = [batch EXCEPT !.pc = "wait"]
            /\ sess' = [s \in Sessions |->
                          IF s \in BatchFiles THEN [sess[s] EXCEPT !.pc = "acquire"]
                          ELSE sess[s]]
    /\ UNCHANGED <<cfg, files, sem, cancelled, errs, att, disk, ev>>

\* os.ReadDir fails, or the entries that are not directories are handed to
\* UploadMultipleFiles
UploadDirectory_Start ==
    \/ /\ batch.pc = "idle"
       /\ batch' = [batch EXCEPT !.pc = "done",
                                 !.res = <<"oshibka chteniya direktorii">>]
       /\ UNCHANGED <<cfg, files, sem, cancelled, errs, sess, att, disk, ev>>
    \/ UploadMultipleFiles_Start

\* a task that cancels the batch's context when its file has failed
UploadTask_FinishCancelling(s) ==
    /\ s \in BatchFiles
    /\ sess[s].pc = "returned"
    /\ errs' = IF sess[s].res = NoErr THEN errs
               ELSE Append(errs, <<"oshibka zagruzki fayla", Path(s)>> \o sess[s].res)
    /\ batch' = [batch EXCEPT !.cancelled = @ \/ sess[s].res # NoErr]
    /\ sess' = [sess EXCEPT ![s].pc = "exit"]
    /\ UNCHANGED <<cfg, files, sem, cancelled, att, disk, ev>>

\* the goroutine of one file after UploadFile has returned: on an error
\* select { case errors <- ...: case <-ctx.Done(): }, then wg.Done()
UploadTask_Finish(s) ==
    /\ s \in BatchFiles
    /\ sess[s].pc = "returned"
    /\ \/ /\ sess[s].res = NoErr
          /\ errs' = errs
       \/ /\ sess[s].res # NoErr
          /\ errs' = Append(errs, <<"oshibka zagruzki fayla", Path(s)>> \o sess[s].res)
       \/ /\ sess[s].res # NoErr
          /\ CtxDone(s)
          /\ errs' = errs
    /\ sess' = [sess EXCEPT ![s].pc = "exit"]
    /\ UNCHANGED <<cfg, files, sem, cancelled, batch, att, disk, ev>>

\* wg.Wait(), close(errors), the collection of the errors, the deferred cancel()
UploadMultipleFiles_Collect ==
    /\ batch.pc = "wait"
    /\ \A s \in BatchFiles : sess[s].pc = "exit"
    /\ batch' = [ pc |-> "done", cancelled |-> TRUE,
                  res |-> IF Len(errs) > 0
                          THEN <<"oshibki pri zagruzke faylov">> \o JoinErrors(errs)
                          ELSE NoErr ]
    /\ UNCHANGED <<cfg, files, sem, cancelled, errs, sess, att, disk, ev>>

\* the caller cancels the context it passed in
Cancel ==
    /\ ~cancelled
    /\ cancelled' = TRUE
    /\ UNCHANGED <<cfg, files, sem, batch, errs, sess, att, disk, ev>>

(***************************************************************************)
(* Specifications                                                          *)
(***************************************************************************)
Next ==
    \/ Cancel
    \/ UploadMultipleFiles_Start
    \/ UploadDirectory_Start
    \/ UploadMultipleFiles_Collect
    \/ \E s \in Sessions :
        \/ UploadFile_Acquire(s)
        \/ TimerTick(s)
        \/ UploadFile_Delay(s)
        \/ uploadFileOnce_Begin(s)
        \/ uploadFileOnce_DoResponse(s)
        \/ uploadFileOnce_DoError(s)
        \/ uploadFileOnce_WaitDone(s)
        \/ UploadTask_Finish(s)
        \/ \E a \in Attempts :
            \/ Producer_Loop(s, a)
            \/ Producer_WriteError(s, a)
            \/ Producer_Progress(s, a)
            \/ Producer_TrailerError(s, a)
            \/ Transport_Read(s, a)
            \/ Transport_CloseBody(s, a)
            \/ Stub_Respond(s, a)
            \/ handleUpload_Create(s, a)
            \/ handleUpload_Copy(s, a)

\* a file that reaches the encode stage
Real(f) == f.exists /\ f.size > 0

\* One UploadFile call, alone or as a batch of one file, in full detail:
\* every file size, buffer size, retry count and peer.
Init ==
    /\ InitWith(1, CfgSet({1}, 0..MaxRetry, 0..MaxDelay, 1..MaxBuf),
                FileSet(0..MaxSize, {"a"}))
    /\ cfg.r + files[1].size <= MaxWork

Spec == Init /\ [][Next]_vars

\* Concurrent UploadFile calls on one client, each alone or as part of one
\* UploadMultipleFiles call, with files of at most one chunk. The calls are
\* interchangeable, so they are listed batch entries first and, within that,
\* non-empty files first and directories last.
Rank(f) == (IF f.inBatch THEN 0 ELSE 4)
           + (IF Real(f) THEN 0 ELSE IF f.dir THEN 3 ELSE IF f.exists THEN 1 ELSE 2)

InitBatch ==
    \E nf \in 2..MaxFiles :
        /\ InitWith(nf, CfgSet(1..MaxConc, 0..MaxRetry, {0}, {1}),
                    FileSet({0, 1}, {"a", "b", "c", "d"}))
        /\ \A s \in 1..nf : files[s].name = <<"a", "b", "c", "d">>[s]
        /\ \A s \in 1..(nf - 1) : Rank(files[s]) <= Rank(files[s + 1])
        /\ nf + (cfg.r + 1) * Cardinality({ s \in 1..nf : Real(files[s]) }) <= MaxLoad
        /\ ValidURL(cfg.url) /\ cfg.stubBody = "fail"

SpecBatch == InitBatch /\ [][Next]_vars

\* Two concurrent UploadFile calls whose files have the same base name and
\* different contents, of one and of two bytes with a server buffer of two,
\* so that handleUpload is run twice on one destination file; retries are
\* made against the test server only, by one call with a file of one byte
\* next to a call whose file is missing.
InitShared ==
    /\ InitWith(MaxConc, CfgSet({MaxConc}, 0..1, {MaxDelay}, {MaxBuf}),
                FileSet({0, 1, 2}, {"a"}))
    /\ files[1].size >= files[2].size
    /\ Rank(files[1]) <= Rank(files[2])
    /\ ValidURL(cfg.url) /\ cfg.stubBody = "fail"
    /\ cfg.r = 0 => Real(files[1]) /\ Real(files[2])
    /\ cfg.r > 0 => cfg.mode = "stub" /\ files[1].size = 1 /\ ~files[2].exists

SpecShared == InitShared /\ [][Next]_vars

\* LiveFiles concurrent UploadFile calls on a client with a single slot,
\* with files of at most one chunk: without retries they are the tasks of
\* one batch, against either server; with a retry they are calls or tasks
\* against the test server, the last of them on a missing file; the URL is
\* one that cannot be parsed only without retries. Every
\* goroutine that can take a step eventually takes one: the body of each
\* call, the producers it started, the transport and the server working on
\* its requests, and the body of UploadMultipleFiles. Nothing obliges the
\* caller to cancel.
InitLive ==
    /\ InitWith(LiveFiles, CfgSet({1}, 0..1, {MaxDelay}, {1}),
                FileSet({0, 1}, {"a", "b", "c"}))
    /\ \A s \in 1..LiveFiles : files[s].name = <<"a", "b", "c">>[s]
    /\ \A s \in 1..(LiveFiles - 1) : Rank(files[s]) <= Rank(files[s + 1])
    /\ cfg.stubBody = "fail"
    /\ cfg.r = 0 => \A s \in 1..LiveFiles : files[s].inBatch
    /\ cfg.r > 0 => /\ cfg.mode = "stub" /\ ValidURL(cfg.url)
                    /\ Real(files[1]) /\ ~files[LiveFiles].exists

CallStep(s) ==
    \/ UploadFile_Acquire(s)
    \/ TimerTick(s)
    \/ UploadFile_Delay(s)
    \/ uploadFileOnce_Begin(s)
    \/ uploadFileOnce_DoResponse(s)
    \/ uploadFileOnce_DoError(s)
    \/ uploadFileOnce_WaitDone(s)
    \/ UploadTask_Finish(s)

PeerStep(s) ==
    \E a \in Attempts :
        \/ Transport_CloseBody(s, a)
        \/ Stub_Respond(s, a)
        \/ handleUpload_Create(s, a)
        \/ handleUpload_Copy(s, a)

BatchStep ==
    \/ UploadMultipleFiles_Start
    \/ UploadDirectory_Start
    \/ UploadMultipleFiles_Collect

Fairness ==
    /\ WF_vars(BatchStep)
    /\ \A s \in 1..LiveFiles :
          /\ WF_vars(CallStep(s))
          /\ WF_vars(\E a \in Attempts : ProducerStep(s, a))
          /\ WF_vars(PeerStep(s))

SpecLive == InitLive /\ [][Next]_vars /\ Fairness

(***************************************************************************)
(* Claims                                                                  *)
(***************************************************************************)
Tokens(err) == { err[i] : i \in DOMAIN err }

Holders == { s \in Sessions : sess[s].holds }

IsPrefix(p, q) == Len(p) <= Len(q) /\ SubSeq(q, 1, Len(p)) = p

\* no invocation of handleUpload for a request of session s is still writing
HandlersQuiet(s) == \A a \in Attempts : att[s][a].hpc \notin {"create", "copy"}

\* C1: the sessions that have acquired a slot and not yet returned are at
\* most MaxConcurrency, in every interleaving of UploadFile calls and batch
\* tasks on one client.
C1_SlotBound == Cardinality(Holders) <= cfg.k

\* C1 witness: a batch with more files than slots has filled every slot
\* while another of its tasks waits in the acquire select
C1_Witness ==
    /\ Cardinality(BatchFiles) > cfg.k
    /\ Cardinality(Holders) = cfg.k
    /\ \E s \in BatchFiles : sess[s].pc = "acquire"
    /\ \E s \in BatchFiles : sess[s].pc = "do"

C3_RetryStep ==
    \A s \in Sessions :
        /\ sess'[s].calls <= cfg.r + 1
        /\ sess'[s].calls > sess[s].calls
              => /\ ~Returned(s)
                 /\ sess'[s].calls = sess[s].attempt + 1
                 /\ sess[s].calls > 0
                       => /\ sess[s].lastErr # NoErr
                          /\ Tokens(sess[s].lastErr) \cap permanentErrors = {}
        /\ (sess[s].pc \in {"do", "waitdone"} /\ sess'[s].pc = "returned"
               /\ sess'[s].res = NoErr)
              => sess'[s].calls = sess[s].attempt + 1

C3_Retry == [][C3_RetryStep]_vars

\* C3 witness: with RetryAttempts = 2 the first two attempts failed with
\* transient errors and the third succeeded
C3_Witness ==
    \E s \in Sessions :
        /\ cfg.r = 2 /\ sess[s].attempt = 2 /\ sess[s].calls = 3
        /\ sess[s].pc = "returned" /\ sess[s].res = NoErr

\* C4: against a server that answers every request with status 500, an
\* uncancelled UploadFile of a non-empty file performs exactly
\* RetryAttempts+1 attempts and returns an error stating RetryAttempts+1.
C4_AlwaysFailingServer ==
    \A s \in Sessions :
        (cfg.mode = "stub" /\ cfg.stubStatus = StatusFail /\ Real(files[s])
            /\ Returned(s) /\ ~cancelled)
          => /\ sess[s].calls = cfg.r + 1
             /\ ToString(cfg.r + 1) \in Tokens(sess[s].res)

\* C5: when UploadMultipleFiles has returned, its composite error names the
\* path of every file whose UploadFile call returned an error.
C5_AllFailuresReported ==
    batch.pc = "done"
        => \A s \in BatchFiles : sess[s].res # NoErr => Path(s) \in Tokens(batch.res)

\* C6: when UploadMultipleFiles returns after the caller's context was
\* cancelled, every per-file task and every producer task of the call has
\* terminated.
C6_NoTaskSurvivesStep ==
    (batch.pc = "wait" /\ batch'.pc = "done" /\ cancelled)
        => \A s \in BatchFiles :
              /\ sess[s].pc = "exit"
              /\ \A a \in Attempts : att[s][a].ppc \in {"none", "end"}

C6_NoTaskSurvives == [][C6_NoTaskSurvivesStep]_vars

\* C7: once the caller's cancellation has fired, neither the acquire select
\* nor the retry-delay select of UploadFile goes on to a new attempt.
C7_NoAttemptAfterCancelStep ==
    \A s \in Sessions :
        (cancelled /\ sess[s].pc \in {"acquire", "delay"}) => sess'[s].pc # "once"

C7_NoAttemptAfterCancel == [][C7_NoAttemptAfterCancelStep]_vars

\* C8: the progress callback is never invoked after UploadFile has returned.
C8_NoLateProgress == \A s \in Sessions : \A a \in Attempts : ~ev[s][a].late

\* C9: uploadFileOnce returns nil only when the producer has reported
\* success on done and the response status is 200.
C9_SuccessStep ==
    \A s \in Sessions :
        (sess[s].pc \in {"once", "do", "waitdone"} /\ sess'[s].pc = "returned"
            /\ sess'[s].res = NoErr)
          => LET x == att[s][sess[s].attempt] IN
             /\ sess[s].pc = "waitdone"
             /\ x.dset /\ x.done = NoErr
             /\ x.status = StatusOK

C9_SuccessNeedsBoth == [][C9_SuccessStep]_vars

\* C9 witness: handleUpload answered 200 to a body the producer had ended
\* early on a cancelled context; the attempt went through the receive from
\* done and UploadFile has returned the producer's failure
C9_Witness ==
    \E s \in Sessions :
        /\ cfg.mode = "handler"
        /\ Returned(s)
        /\ sess[s].reqs > 0
        /\ sess[s].res = FinalErr(CtxErr)

\* C10: for a missing file and for an empty file no HTTP request is ever
\* issued and at most one attempt is made; when the call has returned and
\* its context is not cancelled, exactly one attempt was made and the error
\* carries the file-access marker (missing file) or the empty-file marker.
C10_PermanentFileErrors ==
    \A s \in Sessions :
        ~Real(files[s])
          => /\ sess[s].reqs = 0
             /\ sess[s].calls <= 1
             /\ \A a \in Attempts : att[s][a] = NoAtt
             /\ (Returned(s) /\ ~cancelled)
                   => /\ sess[s].calls = 1
                      /\ (IF files[s].exists THEN "fayl pustoy"
                          ELSE "oshibka otkrytiya fayla") \in Tokens(sess[s].res)

\* C10 witness: with RetryAttempts = 2 an empty file has been rejected after
\* one attempt
C10_Witness ==
    \E s \in Sessions :
        /\ cfg.r = 2 /\ files[s].exists /\ files[s].size = 0
        /\ Returned(s) /\ ~cancelled /\ sess[s].calls = 1

\* an UploadFile call is between its entry and its return
InProgress(s) == sess[s].pc \in {"acquire", "once", "do", "waitdone", "delay"}

\* C11: a session whose file exists and is empty never holds a permit of the
\* limiter and never waits for one in the acquire select while all permits
\* are taken.
C11_EmptyRejectedBeforeSlot ==
    \A s \in Sessions :
        (files[s].exists /\ files[s].size = 0 /\ ~files[s].dir)
          => /\ ~sess[s].holds
             /\ ~(sess[s].pc = "acquire" /\ ~CanAcquire /\ ~CtxDone(s))

\* C12: the permits taken are exactly those of the sessions between a
\* successful acquire and their return: a session holds one while it runs its
\* attempt loop and none before the acquire or after the return, whatever the
\* exit path, so that all permits are free when no UploadFile call is in
\* progress.
C12_PermitAccounting ==
    /\ sem = Cardinality(Holders)
    /\ \A s \in Sessions :
          sess[s].holds <=> sess[s].pc \in {"once", "do", "waitdone", "delay"}
    /\ (\A s \in Sessions : ~InProgress(s)) => sem = 0

\* C12 witness: no call is in progress and no permit is taken after one call
\* was cancelled during its retry delay and another failed permanently
C12_Witness ==
    /\ \A s \in Sessions : ~InProgress(s)
    /\ sem = 0
    /\ \E s \in Sessions : Returned(s) /\ sess[s].res = CtxErr /\ sess[s].calls > 0
    /\ \E s \in Sessions : Returned(s) /\ "fayl pustoy" \in Tokens(sess[s].res)

\* C13: while the caller has not cancelled, the context of a batch task that
\* has not finished is not done, no task's result is a cancellation, and a
\* task that failed did so on its own permanent error or after all of its
\* own RetryAttempts+1 attempts.
C13_SiblingsUnaffected ==
    ~cancelled =>
        \A s \in BatchFiles :
            /\ sess[s].pc # "exit" => ~CtxDone(s)
            /\ "context canceled" \notin Tokens(sess[s].res)
            /\ (Returned(s) /\ sess[s].res # NoErr)
                  => /\ sess[s].res = FinalErr(sess[s].lastErr)
                     /\ isPermanentError(sess[s].lastErr) \/ sess[s].calls = cfg.r + 1

\* C13 witness: an uncancelled batch has returned with one file failed and
\* reported and a sibling uploaded
C13_Witness ==
    /\ batch.pc = "done" /\ ~cancelled
    /\ \E s, u \in BatchFiles :
          /\ sess[s].res # NoErr /\ Path(s) \in Tokens(batch.res)
          /\ sess[u].res = NoErr /\ sess[u].reqs > 0
          /\ Path(u) \notin Tokens(batch.res)

\* C14: the final error of the retry loop states the number of attempts the
\* session performed and wraps the last attempt's cause.
C14_AttemptCountStated ==
    \A s \in Sessions :
        (Returned(s) /\ Len(sess[s].res) >= 2
            /\ sess[s].res[1] = "zagruzka ne udalas posle")
          => /\ sess[s].res[2] = ToString(sess[s].calls)
             /\ SubSeq(sess[s].res, 3, Len(sess[s].res)) = sess[s].lastErr

\* C15: when UploadFile has succeeded, the last progress report of the
\* successful attempt has bytesTransferred = totalBytes = the file's size and
\* percentage 100, and it is that attempt's only report at 100%.
C15_FinalProgress ==
    \A s \in Sessions :
        (Returned(s) /\ sess[s].res = NoErr)
          => LET e == ev[s][sess[s].attempt] IN
             /\ e.seen
             /\ e.bytes = files[s].size /\ e.total = files[s].size
             /\ Percentage(e.bytes, e.total) = 100
             /\ e.full = 1

\* C15 witness: a file of three chunks uploaded with RetryAttempts 0 to a
\* server that always answers 200, with one report at 100%
C15_Witness ==
    \E s \in Sessions :
        /\ cfg.mode = "stub" /\ cfg.stubStatus = StatusOK /\ cfg.r = 0
        /\ cfg.buf = 1 /\ files[s].size = MaxSize
        /\ Returned(s) /\ sess[s].res = NoErr
        /\ ev[s][0].full = 1

\* C16: every progress report of every attempt has 0 < bytesTransferred <=
\* totalBytes = the file's size, the reports of one attempt never decrease,
\* and the first report of every attempt, retries included, is the length of
\* the first chunk: the count starts from zero in each attempt.
C16_ProgressRange ==
    \A s \in Sessions : \A a \in Attempts :
        LET e == ev[s][a] IN
        e.seen => /\ e.inRange /\ e.mono
                  /\ 0 < e.bytes /\ e.bytes <= e.total
                  /\ e.total = files[s].size
                  /\ e.first = ReadLen(s, 0)

\* C16 witness: the first attempt reported two chunks and failed, and the
\* retry's report is below the first attempt's last one
C16_Witness ==
    \E s \in Sessions :
        /\ ev[s][0].bytes = 2 /\ ev[s][0].first = 1
        /\ cfg.r >= 1 /\ ev[s][1].seen /\ ev[s][1].bytes = 1

\* C17: a batch call with no file to upload (an empty list, or a directory
\* without non-directory entries, or a directory that cannot be read) ends
\* in the step that starts it, with an error, leaving the limiter, every
\* session, every request and the error channel as they were.
C17_EmptyBatchStep ==
    ((BatchFiles = {} \/ batch'.pc = "done") /\ batch.pc = "idle" /\ batch'.pc # "idle")
        => /\ batch'.pc = "done"
           /\ batch'.res # NoErr
           /\ sem' = sem /\ sess' = sess /\ att' = att /\ errs' = errs

C17_EmptyBatch == [][C17_EmptyBatchStep]_vars

\* C17 witness: UploadDirectory on a directory holding only a subdirectory
\* has returned the empty-list error while an unrelated upload holds a permit
C17_Witness ==
    /\ batch.pc = "done" /\ batch.res = <<"spisok faylov pust">>
    /\ BatchFiles = {}
    /\ \E s \in Sessions : files[s].dir
    /\ sem > 0

\* C18: UploadMultipleFiles returns nil only if the UploadFile call of every
\* file of the batch returned nil.
C18_NilMeansAllSucceeded ==
    (batch.pc = "done" /\ batch.res = NoErr)
        => \A s \in BatchFiles : Returned(s) /\ sess[s].res = NoErr

\* C19: the receiver observes the end of the body (the trailing boundary and
\* a clean EOF) only for a body that carries the whole file.
C19_NoCleanEndOfTruncatedBody ==
    \A s \in Sessions : \A a \in Attempts :
        att[s][a].fend => att[s][a].form = Data(s)

\* C20: an attempt whose response has a status other than 200 is followed by
\* the retry delay while attempts remain, whatever the producer reported.
C20_NonSuccessStatusRetriedStep ==
    \A s \in Sessions :
        (sess[s].pc = "waitdone" /\ sess'[s].pc # "waitdone"
            /\ att[s][sess[s].attempt].status # StatusOK
            /\ sess[s].attempt < cfg.r)
          => sess'[s].pc = "delay"

C20_NonSuccessStatusRetried == [][C20_NonSuccessStatusRetriedStep]_vars

\* the request of an attempt is on a connection that has not been torn down
Live(x) == x.conn \in {"open", "resp"}

\* C21: the last error of an attempt that failed on the response status or
\* in c.client.Do is never classified permanent by isPermanentError, whatever
\* the response body or the URL put into its message.
C21_FailureKindDecides ==
    \A s \in Sessions :
        (sess[s].lastErr # NoErr
            /\ sess[s].lastErr[1] \in {"server vernul oshibku",
                                      "oshibka vypolneniya HTTP zaprosa"})
          => ~isPermanentError(sess[s].lastErr)

\* C22: while an attempt's request is up, the producer has read from the
\* file exactly what the consumer has taken plus, during a pipe write, the
\* one chunk of at most BufferSize bytes being written; the bytes counted and
\* the bytes reported to the progress callback never exceed what the
\* consumer has taken.
C22_Backpressure ==
    \A s \in Sessions : \A a \in Attempts :
        LET x == att[s][a]
            taken == Len(x.form)
        IN
        (Live(x) /\ x.ppc \in {"hdr", "loop", "wr", "cb"})
          => /\ x.n <= cfg.buf
             /\ x.off = taken + (IF x.ppc = "wr" THEN x.n ELSE 0)
             /\ x.off <= taken + cfg.buf
             /\ x.bt <= taken
             /\ ev[s][a].seen => ev[s][a].bytes <= taken

\* C22 witness: the consumer has taken the first chunk, it has been
\* reported, and the producer is blocked writing a second chunk of
\* BufferSize bytes
C22_Witness ==
    \E s \in Sessions : \E a \in Attempts :
        LET x == att[s][a] IN
        /\ Live(x) /\ x.ppc = "wr"
        /\ Len(x.form) > 0
        /\ x.off = Len(x.form) + cfg.buf
        /\ ev[s][a].bytes = Len(x.form)

\* C23: once the context of an attempt is done, its producer reads no
\* further chunk from the file, and a producer that was writing a chunk when
\* the cancellation fired ends with the cancellation error, not with an
\* outcome sent from that write.
C23_StopsAfterCancelStep ==
    \A s \in Sessions : \A a \in Attempts :
        LET x == att[s][a]
            y == att'[s][a]
        IN
        CtxDone(s)
          => /\ x.ppc = "loop" => y.ppc # "wr"
             /\ (x.ppc = "wr" /\ ~x.fclosed /\ y.dset) => y.done = CtxErr

C23_StopsAfterCancel == [][C23_StopsAfterCancelStep]_vars

\* C26: a producer has sent its one outcome on done exactly when it is past
\* its loop, and a producer that has not ended always has a step to take:
\* it is never blocked for good on done or on the pipe.
C26_OneOutcomeNoBlock ==
    \A s \in Sessions : \A a \in Attempts :
        LET x == att[s][a] IN
        /\ x.dset <=> x.ppc \in {"trl", "end"}
        /\ x.ppc \notin {"none", "end"} => ENABLED ProducerStep(s, a)

\* C26 witness: the request could not be built, uploadFileOnce returned, and
\* the producer it had started has sent its outcome and ended
C26_Witness ==
    \E s \in Sessions :
        /\ ~ValidURL(cfg.url)
        /\ Returned(s)
        /\ att[s][0].ppc = "end" /\ att[s][0].dset

\* C25: when two uploads with the same filename have both been answered 200
\* by handleUpload and no handler is writing any more, the file under the
\* upload directory is one of the two payloads in full.
C25_NoMixture ==
    \A s, u \in Sessions :
        (s # u /\ files[s].name = files[u].name /\ cfg.mode = "handler"
            /\ Returned(s) /\ sess[s].res = NoErr /\ HandlersQuiet(s)
            /\ Returned(u) /\ sess[u].res = NoErr /\ HandlersQuiet(u))
          => disk[files[s].name] \in {Data(s), Data(u)}

\* C24: every UploadFile call that waits for a slot eventually returns, and
\* an UploadMultipleFiles call that has started its tasks eventually
\* returns, also when the tasks are more than the slots.
C24_EveryCallReturns ==
    /\ (batch.pc = "wait") ~> (batch.pc = "done")
    /\ \A s \in 1..LiveFiles :
          (sess[s].pc = "acquire") ~> (sess[s].pc \in {"returned", "exit"})

\* C24 witness: an uncancelled batch of more files than slots has returned,
\* every one of its tasks having held the slot for an HTTP request
C24_Witness ==
    /\ batch.pc = "done" /\ ~cancelled
    /\ Cardinality(BatchFiles) > cfg.k
    /\ \A s \in BatchFiles : sess[s].pc = "exit" /\ sess[s].reqs > 0

====
